---- MODULE Spec2Model ----
(***************************************************************************)
(* State-machine model of the Daily Motivation dashboard (src/src/App.jsx): *)
(* the App component's state, its localStorage persistence, the quote      *)
(* fetch (async, two await points) and the like / remove / clear handlers. *)
(***************************************************************************)
EXTENDS Integers, Sequences, FiniteSets, TLC

VARIABLES
  quote,        \* useState(null): the current quote, Null or an object
  loading,      \* useState(false)
  error,        \* useState(""): error message
  theme,        \* useState(() => stored theme || "dark")
  likedQuotes,  \* useState(() => parsed localStorage value, else [])
  character,    \* index into CHARACTERS of the character shown
  sceneKey,     \* useState(0): remount counter
  lsLiked,      \* localStorage[LS_KEY]: <<>> when absent, <<text>> when present
  lsTheme,      \* localStorage[THEME_KEY]: <<>> when absent, <<string>> when present
  lsMode,       \* the browser's localStorage, fixed for a run: "ok"; "full" (setItem
                \* throws QuotaExceededError); "blocked" (every access throws)
  mounted,      \* the first render committed and the mount effects have run
  crashed,      \* a render threw: React has unmounted the tree
  calls,        \* the fetchRandomQuote invocations in flight, in start order
  started,      \* history: number of fetchRandomQuote calls started since page load
  done,         \* history: the calls resolved since the last moment none was in flight
  last          \* history: the last step taken, and whether the latest write of the
                \* liked list to localStorage succeeded

vars == <<quote, loading, error, theme, likedQuotes, character, sceneKey,
          lsLiked, lsTheme, lsMode, mounted, crashed, calls, started, done, last>>

-----------------------------------------------------------------------------
(* Bounds of the model *)

\* fetchRandomQuote calls that can be started within one page load
MaxFetches == 2
\* the largest index Math.floor(Math.random() * CHARACTERS.length) is drawn from
MaxPick == 1

-----------------------------------------------------------------------------
(* JavaScript values *)

Undefined == [t |-> "undefined"]
Null == [t |-> "null"]
Str(s) == [t |-> "string", s |-> s]
Num(n) == [t |-> "number", n |-> n]
\* an object is its own properties in insertion order, each <<key, value>>
Obj(props) == [t |-> "object", p |-> props]
Arr(elems) == [t |-> "array", e |-> elems]

RECURSIVE Lookup(_, _)
Lookup(props, key) ==
  IF props = <<>> THEN Undefined
  ELSE IF Head(props)[1] = key THEN Head(props)[2]
  ELSE Lookup(Tail(props), key)

\* v.key for a value that is neither null nor undefined (those throw)
Get(v, key) == IF v.t = "object" THEN Lookup(v.p, key) ELSE Undefined

\* String(v)
String(v) ==
  CASE v.t = "string" -> v
    [] v.t = "number" -> Str(ToString(v.n))
    [] v.t = "null" -> Str("null")
    [] v.t = "undefined" -> Str("undefined")
    [] OTHER -> Str("[object]")

-----------------------------------------------------------------------------
(* JSON text: a sequence of tokens *)

P(c) == [k |-> c]
TStr(s) == [k |-> "str", s |-> s]
TNum(n) == [k |-> "num", n |-> n]
TNull == [k |-> "null"]

RECURSIVE Stringify(_), StringifyElems(_), StringifyProps(_, _)
\* JSON.stringify(v) for a value that is not undefined
Stringify(v) ==
  CASE v.t = "string" -> <<TStr(v.s)>>
    [] v.t = "number" -> <<TNum(v.n)>>
    [] v.t = "null" -> <<TNull>>
    [] v.t = "array" -> <<P("[")>> \o StringifyElems(v.e) \o <<P("]")>>
    [] v.t = "object" -> <<P("{")>> \o StringifyProps(v.p, TRUE) \o <<P("}")>>
\* array elements: undefined is written as null
StringifyElems(es) ==
  IF es = <<>> THEN <<>>
  ELSE (IF Head(es).t = "undefined" THEN <<TNull>> ELSE Stringify(Head(es)))
       \o (IF Tail(es) = <<>> THEN <<>> ELSE <<P(",")>> \o StringifyElems(Tail(es)))
\* object properties: a property whose value is undefined is left out
StringifyProps(ps, first) ==
  IF ps = <<>> THEN <<>>
  ELSE IF Head(ps)[2].t = "undefined" THEN StringifyProps(Tail(ps), first)
  ELSE (IF first THEN <<>> ELSE <<P(",")>>)
       \o <<TStr(Head(ps)[1]), P(":")>> \o Stringify(Head(ps)[2])
       \o StringifyProps(Tail(ps), FALSE)

ParseFail == [ok |-> FALSE, v |-> Undefined, rest |-> <<>>]
ParseOk(v, rest) == [ok |-> TRUE, v |-> v, rest |-> rest]

RECURSIVE ParseValue(_), ParseElems(_, _), ParseProps(_, _)
\* one JSON value at the head of ts
ParseValue(ts) ==
  IF ts = <<>> THEN ParseFail
  ELSE LET h == Head(ts) IN
    CASE h.k = "str" -> ParseOk(Str(h.s), Tail(ts))
      [] h.k = "num" -> ParseOk(Num(h.n), Tail(ts))
      [] h.k = "null" -> ParseOk(Null, Tail(ts))
      [] h.k = "[" ->
           IF Len(ts) > 1 /\ ts[2].k = "]" THEN ParseOk(Arr(<<>>), Tail(Tail(ts)))
           ELSE ParseElems(Tail(ts), <<>>)
      [] h.k = "{" ->
           IF Len(ts) > 1 /\ ts[2].k = "}" THEN ParseOk(Obj(<<>>), Tail(Tail(ts)))
           ELSE ParseProps(Tail(ts), <<>>)
      [] OTHER -> ParseFail
\* the elements of a non-empty array, after "[" or ","
ParseElems(ts, acc) ==
  LET r == ParseValue(ts) IN
    IF ~r.ok \/ r.rest = <<>> THEN ParseFail
    ELSE IF Head(r.rest).k = "," THEN ParseElems(Tail(r.rest), Append(acc, r.v))
    ELSE IF Head(r.rest).k = "]" THEN ParseOk(Arr(Append(acc, r.v)), Tail(r.rest))
    ELSE ParseFail
\* the properties of a non-empty object, after "{" or ","
ParseProps(ts, acc) ==
  IF Len(ts) < 3 \/ ts[1].k # "str" \/ ts[2].k # ":" THEN ParseFail
  ELSE LET r == ParseValue(Tail(Tail(ts))) IN
    IF ~r.ok \/ r.rest = <<>> THEN ParseFail
    ELSE IF Head(r.rest).k = "," THEN ParseProps(Tail(r.rest), Append(acc, <<ts[1].s, r.v>>))
    ELSE IF Head(r.rest).k = "}" THEN ParseOk(Obj(Append(acc, <<ts[1].s, r.v>>)), Tail(r.rest))
    ELSE ParseFail

\* JSON.parse(text): [ok |-> FALSE] stands for the SyntaxError it throws
JsonParse(text) ==
  LET r == ParseValue(text) IN
    IF r.ok /\ r.rest = <<>> THEN [ok |-> TRUE, v |-> r.v] ELSE [ok |-> FALSE, v |-> Undefined]

-----------------------------------------------------------------------------
(* Program constants and the inputs of the environment *)

\* CHARACTERS.length
NumCharacters == 5

DefaultError == "Something went wrong"
HttpError == "Failed to fetch quote"

ApiQuote(id, text, author) ==
  Obj(<< <<"id", id>>, <<"quote", text>>, <<"author", author>> >>)

\* response bodies of the quote API: three quotes (two of them with ids that
\* coerce to the same string, one without an author), the JSON text null, and
\* a body that is not JSON
Bodies ==
  { Stringify(ApiQuote(Num(1), Str("A"), Str("X"))),
    Stringify(ApiQuote(Num(2), Str("B"), Str("Y"))),
    Stringify(ApiQuote(Str("1"), Str("C"), Undefined)),
    <<TNull>>,
    <<P("{")>> }

\* what fetch() may reject with: an Error with a message, one with an empty
\* message, and a thrown undefined
Thrown == { Obj(<< <<"message", Str("Failed to fetch")>> >>),
            Obj(<< <<"message", Str("")>> >>),
            Undefined }

SyntaxErrorThrown == Obj(<< <<"message", Str("Unexpected end of JSON input")>> >>)
TypeErrorThrown == Obj(<< <<"message", Str("Cannot read properties of null")>> >>)

LikedEntry(id, text, author) ==
  Obj(<< <<"_id", Str(id)>>, <<"content", Str(text)>>, <<"author", Str(author)>> >>)

\* what localStorage may hold under LS_KEY when the page loads: nothing, lists
\* an earlier session wrote, and content that is not a list of quotes (text
\* that is not JSON, the JSON values null and {}, a list of objects that have
\* an _id but no content and no author)
StoredLiked ==
  { <<>>,
    << Stringify(Arr(<< LikedEntry("1", "A", "X") >>)) >>,
    << <<P("[")>> >>,
    << <<TNull>> >>,
    << Stringify(Obj(<<>>)) >>,
    << Stringify(Arr(<< Obj(<< <<"_id", Str("1")>> >>), Obj(<< <<"_id", Str("1")>> >>) >>)) >> }

StorageModes == {"ok", "full", "blocked"}

\* what localStorage may hold under THEME_KEY when the page loads: nothing,
\* or one of the two values the theme effect writes
StoredTheme == { <<>>, <<"light">>, <<"dark">> }

-----------------------------------------------------------------------------
(* Initial render *)

\* useState initializer of theme
ThemeInit(blocked, stored) ==
  IF blocked THEN "dark"
  ELSE IF stored = <<>> \/ stored[1] = "" THEN "dark"
  ELSE stored[1]

\* useState initializer of likedQuotes
LikedInit(blocked, stored) ==
  IF blocked THEN Arr(<<>>)
  ELSE IF stored = <<>> \/ stored[1] = <<>> THEN Arr(<<>>)
  ELSE LET r == JsonParse(stored[1]) IN IF r.ok THEN r.v ELSE Arr(<<>>)

\* likedQuotes.map((q) => q._id) throws a TypeError: likedQuotes has no map
\* method, or an element is null
LikedIdsThrows(liked) ==
  \/ liked.t # "array"
  \/ \E i \in 1..Len(liked.e) : liked.e[i].t \in {"null", "undefined"}

\* the ids likedIds holds
LikedIds(liked) == { Get(liked.e[i], "_id") : i \in 1..Len(liked.e) }

\* the state after the first render, given the storage the page finds
FirstRender(blocked, storedLiked, storedTheme) ==
  /\ quote = Null
  /\ loading = FALSE
  /\ error = ""
  /\ theme = ThemeInit(blocked, storedTheme)
  /\ likedQuotes = LikedInit(blocked, storedLiked)
  /\ character = 0
  /\ sceneKey = 0
  /\ mounted = FALSE
  /\ crashed = LikedIdsThrows(LikedInit(blocked, storedLiked))
  /\ calls = <<>>
  /\ started = 0
  /\ done = <<>>

Init ==
  /\ lsMode \in StorageModes
  /\ lsLiked \in StoredLiked
  /\ lsTheme \in StoredTheme
  /\ last = [op |-> "init", wrote |-> FALSE]
  /\ FirstRender(lsMode = "blocked", lsLiked, lsTheme)

-----------------------------------------------------------------------------
(* Effects *)

\* whether localStorage.setItem succeeds; the effects
\* swallow the exception when it throws
WriteOk == lsMode = "ok"

\* mutant of PersistLiked: the effect serializes the list of the previous render
PersistLikedStale(newLiked, ok) ==
  lsLiked' = IF ok THEN << Stringify(likedQuotes) >> ELSE lsLiked

\* useEffect(..., [likedQuotes]): localStorage.setItem(LS_KEY, JSON.stringify(likedQuotes))
PersistLiked(newLiked, ok) ==
  lsLiked' = IF ok THEN << Stringify(newLiked) >> ELSE lsLiked

\* useEffect(..., [theme]): localStorage.setItem(THEME_KEY, theme)
PersistTheme(newTheme, ok) ==
  lsTheme' = IF ok THEN << newTheme >> ELSE lsTheme

-----------------------------------------------------------------------------
(* fetchRandomQuote *)

RemoveAt(s, i) == SubSeq(s, 1, i - 1) \o SubSeq(s, i + 1, Len(s))

\* mutant of ErrorMessage: setError(e.message), without the fallback
ErrorMessageRaw(e) ==
  LET m == IF e.t \in {"null", "undefined"} THEN Undefined ELSE Get(e, "message") IN
    IF m.t = "string" THEN m.s ELSE ""

\* e?.message || "Something went wrong"
ErrorMessage(e) ==
  LET m == IF e.t \in {"null", "undefined"} THEN Undefined ELSE Get(e, "message") IN
    IF m.t = "string" /\ m.s # "" THEN m.s ELSE DefaultError

\* the values of Math.floor(Math.random() * CHARACTERS.length) that are drawn
RandomIndexes == { c \in 0..(NumCharacters - 1) : c <= MaxPick }

\* the object passed to setQuote
NormalizeQuote(data) ==
  Obj(<< <<"_id", String(Get(data, "id"))>>,
         <<"content", Get(data, "quote")>>,
         <<"author", Get(data, "author")>> >>)

\* fetchRandomQuote up to its first await: setLoading(true); setError("")
BeginFetch(by) ==
  /\ started < MaxFetches
  /\ loading' = TRUE
  /\ error' = ""
  /\ started' = started + 1
  /\ calls' = Append(calls, [id |-> started + 1, by |-> by, pc |-> "fetch", body |-> <<>>])
  /\ done' = IF calls = <<>> THEN <<>> ELSE done

\* mutant of CatchFinally: the catch block without the finally block
CatchNoFinally(i, e) ==
  /\ error' = ErrorMessage(e)
  /\ loading' = loading
  /\ calls' = RemoveAt(calls, i)
  /\ done' = Append(done, [id |-> calls[i].id, by |-> calls[i].by, ok |-> FALSE,
                           q |-> Null, c |-> 0, k |-> sceneKey])
  /\ UNCHANGED <<quote, character, sceneKey>>

\* catch (e) { setError(...) } finally { setLoading(false) }
CatchFinally(i, e) ==
  /\ error' = ErrorMessage(e)
  /\ loading' = FALSE
  /\ calls' = RemoveAt(calls, i)
  /\ done' = Append(done, [id |-> calls[i].id, by |-> calls[i].by, ok |-> FALSE,
                           q |-> Null, c |-> 0, k |-> sceneKey])
  /\ UNCHANGED <<quote, character, sceneKey>>

\* mutant of CommitQuote: a response is applied only when its call is the
\* latest one started (a request token)
CommitQuoteIfLatest(i, data, c) ==
  /\ quote' = IF calls[i].id = started THEN NormalizeQuote(data) ELSE quote
  /\ character' = IF calls[i].id = started THEN c ELSE character
  /\ sceneKey' = IF calls[i].id = started THEN sceneKey + 1 ELSE sceneKey
  /\ loading' = FALSE
  /\ calls' = RemoveAt(calls, i)
  /\ done' = Append(done, [id |-> calls[i].id, by |-> calls[i].by, ok |-> TRUE,
                           q |-> NormalizeQuote(data), c |-> c, k |-> sceneKey])
  /\ UNCHANGED error

\* setQuote(...); setCharacter(pickRandomCharacter()); setSceneKey((k) => k + 1);
\* finally { setLoading(false) }
CommitQuote(i, data, c) ==
  /\ quote' = NormalizeQuote(data)
  /\ character' = c
  /\ sceneKey' = sceneKey + 1
  /\ loading' = FALSE
  /\ calls' = RemoveAt(calls, i)
  /\ done' = Append(done, [id |-> calls[i].id, by |-> calls[i].by, ok |-> TRUE,
                           q |-> NormalizeQuote(data), c |-> c, k |-> sceneKey])
  /\ UNCHANGED error

\* await fetch(url) settles for call i: it rejects, or resolves with a response
\* that is not ok, or with an ok response whose body is still to be read
FetchSettles(i) ==
  /\ calls[i].pc = "fetch"
  /\ \/ \E e \in Thrown : CatchFinally(i, e)
     \/ CatchFinally(i, Obj(<< <<"message", Str(HttpError)>> >>))
     \/ \E b \in Bodies :
          /\ calls' = [calls EXCEPT ![i] = [@ EXCEPT !.pc = "json", !.body = b]]
          /\ UNCHANGED <<quote, loading, error, character, sceneKey, done>>
  /\ last' = [last EXCEPT !.op = "fetchSettled"]
  /\ UNCHANGED <<theme, likedQuotes, lsLiked, lsTheme, lsMode, mounted, crashed, started>>

\* res.json(): JSON.parse of the response body, tabulated over the bodies
ResJson == [ b \in Bodies |-> JsonParse(b) ]

\* await res.json() settles for call i
JsonSettles(i) ==
  /\ calls[i].pc = "json"
  /\ LET r == ResJson[calls[i].body] IN
       IF ~r.ok THEN CatchFinally(i, SyntaxErrorThrown)
       ELSE IF r.v.t \in {"null", "undefined"} THEN CatchFinally(i, TypeErrorThrown)
       ELSE \E c \in RandomIndexes : CommitQuote(i, r.v, c)
  /\ last' = [last EXCEPT !.op = "jsonSettled"]
  /\ UNCHANGED <<theme, likedQuotes, lsLiked, lsTheme, lsMode, mounted, crashed, started>>

-----------------------------------------------------------------------------
(* Liked-quotes handlers *)

\* mutant of ToggleLiked: a like is added at the end of the list
ToggleLikedAppend(prev, q) ==
  LET id == Get(q, "_id")
      exists == \E i \in 1..Len(prev.e) : Get(prev.e[i], "_id") = id
  IN IF exists
     THEN Arr(SelectSeq(prev.e, LAMBDA x : Get(x, "_id") # id))
     ELSE Arr(prev.e \o << Obj(<< <<"_id", id>>, <<"content", Get(q, "content")>>,
                                 <<"author", Get(q, "author")>> >>) >>)

\* mutant of ToggleLiked: the filter of an unlike keeps the entries it should drop
ToggleLikedKeep(prev, q) ==
  LET id == Get(q, "_id")
      exists == \E i \in 1..Len(prev.e) : Get(prev.e[i], "_id") = id
  IN IF exists
     THEN Arr(SelectSeq(prev.e, LAMBDA x : Get(x, "_id") = id))
     ELSE Arr(<< Obj(<< <<"_id", id>>, <<"content", Get(q, "content")>>,
                       <<"author", Get(q, "author")>> >>) >> \o prev.e)

\* the updater of toggleLike: prev -> next, for the current quote q
ToggleLiked(prev, q) ==
  LET id == Get(q, "_id")
      exists == \E i \in 1..Len(prev.e) : Get(prev.e[i], "_id") = id
  IN IF exists
     THEN Arr(SelectSeq(prev.e, LAMBDA x : Get(x, "_id") # id))
     ELSE Arr(<< Obj(<< <<"_id", id>>, <<"content", Get(q, "content")>>,
                       <<"author", Get(q, "author")>> >>) >> \o prev.e)

\* the updater of removeLiked(id)
RemoveLiked(prev, id) == Arr(SelectSeq(prev.e, LAMBDA x : Get(x, "_id") # id))

\* a handler set likedQuotes to newLiked: the render that follows runs the
\* persistence effect
SetLikedQuotes(op, newLiked) ==
  /\ likedQuotes' = newLiked
  /\ PersistLiked(newLiked, WriteOk)
  /\ last' = [op |-> op, wrote |-> WriteOk]
  /\ UNCHANGED <<quote, loading, error, theme, character, sceneKey, lsTheme, lsMode,
                 mounted, crashed, calls, started, done>>

toggleLike ==
  IF quote = Null
  THEN /\ last' = [last EXCEPT !.op = "toggleLike"]
       /\ UNCHANGED <<quote, loading, error, theme, likedQuotes, character, sceneKey,
                      lsLiked, lsTheme, lsMode, mounted, crashed, calls, started, done>>
  ELSE SetLikedQuotes("toggleLike", ToggleLiked(likedQuotes, quote))

removeLiked(id) == SetLikedQuotes("removeLiked", RemoveLiked(likedQuotes, id))

clearLiked == SetLikedQuotes("clearLiked", Arr(<<>>))

-----------------------------------------------------------------------------
(* The page: mount, the controls the render enables, reload *)

Alive == mounted /\ ~crashed

\* the effects of the first commit, in order: theme, likedQuotes, fetchRandomQuote()
Mount ==
  /\ ~mounted /\ ~crashed
  /\ mounted' = TRUE
  /\ PersistTheme(theme, WriteOk)
  /\ PersistLiked(likedQuotes, WriteOk)
  /\ last' = [op |-> "mount", wrote |-> WriteOk]
  /\ BeginFetch("mount")
  /\ UNCHANGED <<quote, theme, likedQuotes, character, sceneKey, lsMode, crashed>>

\* mutant of NewQuoteEnabled: the button is not disabled while loading
NewQuoteAlwaysEnabled == TRUE

\* <button onClick={fetchRandomQuote} disabled={loading}>New Quote</button>
NewQuoteEnabled == ~loading

\* {error && !loading && (... <button onClick={fetchRandomQuote}>Try Again</button>)}
TryAgainShown == error # "" /\ ~loading

\* <button onClick={toggleLike} disabled={loading || !quote}>
LikeEnabled == ~(loading \/ quote = Null)

\* <button onClick={clearLiked} disabled={likedQuotes.length === 0}>
ClearEnabled == Len(likedQuotes.e) # 0

fetchRandomQuote(op) ==
  /\ BeginFetch(op)
  /\ last' = [last EXCEPT !.op = op]
  /\ UNCHANGED <<quote, theme, likedQuotes, character, sceneKey, lsLiked, lsTheme,
                 lsMode, mounted, crashed>>

ClickNewQuote == Alive /\ NewQuoteEnabled /\ fetchRandomQuote("newQuote")

ClickTryAgain == Alive /\ TryAgainShown /\ fetchRandomQuote("tryAgain")

ClickLike == Alive /\ LikeEnabled /\ toggleLike

\* the Remove button of the i-th list item
ClickRemove ==
  /\ Alive
  /\ \E i \in 1..Len(likedQuotes.e) : removeLiked(Get(likedQuotes.e[i], "_id"))

ClickClearAll == Alive /\ ClearEnabled /\ clearLiked

\* mutant of NextTheme: the toggle only leaves dark
NextThemeOneWay(t) == IF t = "dark" THEN "light" ELSE t

\* setTheme((t) => (t === "dark" ? "light" : "dark"))
NextTheme(t) == IF t = "dark" THEN "light" ELSE "dark"

ClickTheme ==
  /\ Alive
  /\ theme' = NextTheme(theme)
  /\ PersistTheme(theme', WriteOk)
  /\ last' = [last EXCEPT !.op = "toggleTheme"]
  /\ UNCHANGED <<quote, loading, error, likedQuotes, character, sceneKey, lsLiked,
                 lsMode, mounted, crashed, calls, started, done>>

\* the page is loaded again: the component state is rebuilt from storage and
\* the requests of the old page are gone
Reload ==
  /\ quote' = Null
  /\ loading' = FALSE
  /\ error' = ""
  /\ theme' = ThemeInit(lsMode = "blocked", lsTheme)
  /\ likedQuotes' = LikedInit(lsMode = "blocked", lsLiked)
  /\ character' = 0
  /\ sceneKey' = 0
  /\ mounted' = FALSE
  /\ crashed' = LikedIdsThrows(LikedInit(lsMode = "blocked", lsLiked))
  /\ calls' = <<>>
  /\ started' = 0
  /\ done' = <<>>
  /\ last' = [last EXCEPT !.op = "reload"]
  /\ UNCHANGED <<lsLiked, lsTheme, lsMode>>

Settle == \E i \in 1..Len(calls) : FetchSettles(i) \/ JsonSettles(i)

Next ==
  \/ Mount
  \/ Settle
  \/ ClickNewQuote
  \/ ClickTryAgain
  \/ ClickLike
  \/ ClickRemove
  \/ ClickClearAll
  \/ ClickTheme
  \/ Reload

Spec == Init /\ [][Next]_vars

\* every request to the quote API eventually succeeds or fails
LiveSpec == Spec /\ WF_vars(Settle)

-----------------------------------------------------------------------------
(* The handlers called as functions, without the guards of the rendered      *)
(* controls (disabled buttons, the hidden alert)                             *)

CallFetchRandomQuote == Alive /\ fetchRandomQuote("call")

CallToggleLike == Alive /\ toggleLike

\* ids removeLiked is called with
ProbeIds == { Str("1"), Str("2"), Str("9") }

CallRemoveLiked == Alive /\ \E id \in ProbeIds : removeLiked(id)

CallClearLiked == Alive /\ clearLiked

\* the liked-quotes handlers called in any state of a page whose fetches are
\* started by the mount effect and the controls
NextCalls ==
  \/ Mount
  \/ Settle
  \/ ClickNewQuote
  \/ ClickTryAgain
  \/ CallToggleLike
  \/ CallRemoveLiked
  \/ CallClearLiked
  \/ Reload

SpecCalls == Init /\ [][NextCalls]_vars

\* fetchRandomQuote called while earlier calls are in flight
NextRace ==
  \/ Mount
  \/ Settle
  \/ CallFetchRandomQuote
  \/ Reload

SpecRace == Init /\ [][NextRace]_vars

-----------------------------------------------------------------------------
(* Vocabulary of the properties *)

\* the {id, content, author} a liked entry or a quote reads as
Tuple(q) == << Get(q, "_id"), Get(q, "content"), Get(q, "author") >>

\* the liked list as its sequence of {id, content, author}
Tuples(liked) == [ i \in 1..Len(liked.e) |-> Tuple(liked.e[i]) ]

\* the quotes the API responses of the model normalize to
Quotes == { NormalizeQuote(JsonParse(b).v) :
              b \in { x \in Bodies : JsonParse(x).ok /\ JsonParse(x).v.t = "object" } }

\* stored text that is a list of quotes: a JSON array of objects that have a
\* string _id and a string content
IsListOfQuotes(text) ==
  LET r == JsonParse(text) IN
    /\ r.ok
    /\ r.v.t = "array"
    /\ \A i \in 1..Len(r.v.e) :
         /\ r.v.e[i].t = "object"
         /\ Get(r.v.e[i], "_id").t = "string"
         /\ Get(r.v.e[i], "content").t = "string"

\* the state of the fetch cycle the render shows
Phase ==
  IF loading THEN "Loading"
  ELSE IF error # "" THEN "Error"
  ELSE IF quote # Null THEN "Ready"
  ELSE "Idle"

\* this step settled a call for good (it left `calls` and entered `done`)
Resolved == Len(done') = Len(done) + 1

-----------------------------------------------------------------------------
(* C1 *)

\* C1: in every reachable state the liked-quotes list holds no two entries
\* with the same id.
C1_NoDuplicateIds ==
  likedQuotes.t = "array" =>
    \A i, j \in 1..Len(likedQuotes.e) :
      i # j => Get(likedQuotes.e[i], "_id") # Get(likedQuotes.e[j], "_id")

-----------------------------------------------------------------------------
(* C2 *)

\* C2: when the latest write of the liked list succeeded, the value stored
\* under the liked-quotes key is the serialization of the current list, and the
\* initializer of a reloaded page reads back from it the same sequence of
\* {id, content, author} entries in the same order.
C2_PersistRoundTrip ==
  last.wrote =>
    /\ lsLiked = << Stringify(likedQuotes) >>
    /\ LikedInit(lsMode = "blocked", lsLiked).t = "array"
    /\ Tuples(LikedInit(lsMode = "blocked", lsLiked)) = Tuples(likedQuotes)

\* a page that was reloaded after successful writes shows two restored
\* entries, one of them without an author
C2_Witness ==
  /\ last.op = "reload"
  /\ last.wrote
  /\ Len(likedQuotes.e) = 2
  /\ Tuples(likedQuotes)[1] = << Str("2"), Str("B"), Str("Y") >>
  /\ Tuples(likedQuotes)[2] = << Str("1"), Str("C"), Undefined >>

-----------------------------------------------------------------------------
(* C3 *)

\* C3: at startup, if the liked-quotes key is missing, the storage read
\* throws, or the stored content is not a list of quotes, the liked list is
\* empty and no exception escaped the initializer or the first render.
C3_MalformedStartsEmpty ==
  (~mounted /\ (lsMode = "blocked" \/ lsLiked = <<>> \/ ~IsListOfQuotes(lsLiked[1])))
    => (likedQuotes = Arr(<<>>) /\ ~crashed)

-----------------------------------------------------------------------------
(* C4 *)

\* C4: toggleLike removes the entries with the current quote's id when the id
\* is in the liked list, otherwise it prepends a copy of the quote's
\* {id, content, author} to the unchanged rest; without a current quote it
\* changes nothing.
C4_ToggleLike ==
  [][ last'.op = "toggleLike" =>
        IF quote = Null
        THEN UNCHANGED <<quote, likedQuotes, lsLiked, loading, error>>
        ELSE IF Get(quote, "_id") \in LikedIds(likedQuotes)
        THEN /\ Get(quote, "_id") \notin LikedIds(likedQuotes')
             /\ likedQuotes'.e =
                  SelectSeq(likedQuotes.e, LAMBDA x : Get(x, "_id") # Get(quote, "_id"))
        ELSE /\ Len(likedQuotes'.e) = Len(likedQuotes.e) + 1
             /\ Tuple(Head(likedQuotes'.e)) = Tuple(quote)
             /\ Tail(likedQuotes'.e) = likedQuotes.e ]_vars

\* a like was just prepended to a list that already held another quote
C4_Witness ==
  /\ last.op = "toggleLike"
  /\ quote # Null
  /\ Len(likedQuotes.e) = 2
  /\ Tuple(likedQuotes.e[1]) = Tuple(quote)
  /\ Get(likedQuotes.e[2], "_id") # Get(quote, "_id")

-----------------------------------------------------------------------------
(* C5 *)

\* C5: for the liked list of every reachable state and every quote that is
\* not in it, liking the quote and then unliking it gives back the list: the
\* same elements in the same order.
C5_LikeUnlike ==
  (likedQuotes.t = "array" /\ ~crashed) =>
    \A q \in Quotes :
      Get(q, "_id") \notin LikedIds(likedQuotes) =>
        ToggleLiked(ToggleLiked(likedQuotes, q), q) = likedQuotes

\* an unlike just ran and left a list that still holds a quote
C5_Witness ==
  /\ last.op = "toggleLike"
  /\ quote # Null
  /\ Get(quote, "_id") \notin LikedIds(likedQuotes)
  /\ Len(likedQuotes.e) = 1

-----------------------------------------------------------------------------
(* C6 *)

\* C6: a fetch cycle goes Idle -> Loading -> {Ready, Error}: starting a fetch
\* enters Loading; a call that settles with a parsed quote enters Ready with
\* that quote as the current quote; a call that settles with a failure enters
\* Error with a non-empty message; Loading is left only for Ready or Error (or
\* by reloading the page); Try Again is offered only in Error and re-enters
\* Loading.
C6_FetchCycle ==
  [][ /\ (started' = started + 1) => Phase' = "Loading"
      /\ (Resolved /\ done'[Len(done')].ok) =>
           (Phase' = "Ready" /\ quote' = done'[Len(done')].q)
      /\ (Resolved /\ ~done'[Len(done')].ok) =>
           (Phase' = "Error" /\ error' # "" /\ quote' = quote)
      /\ (Phase = "Loading" /\ Phase' # "Loading" /\ last'.op # "reload") =>
           (Resolved /\ Phase' \in {"Ready", "Error"})
      /\ last'.op = "tryAgain" => (Phase = "Error" /\ Phase' = "Loading") ]_vars

\* a retry from Error has ended in Ready
C6_Witness ==
  /\ Len(done) = 1
  /\ done[1].by = "tryAgain"
  /\ done[1].ok
  /\ Phase = "Ready"
  /\ quote = done[1].q

-----------------------------------------------------------------------------
(* C7 *)

\* C7: with fetches started only by the mount effect and by the enabled
\* controls, at most one fetchRandomQuote call is in flight.
C7_OneInFlight == Len(calls) <= 1

\* a fetch started from a control is in flight
C7_Witness ==
  /\ Len(calls) = 1
  /\ calls[1].by \in {"newQuote", "tryAgain"}

-----------------------------------------------------------------------------
(* C8 *)

\* C8: when fetchRandomQuote calls overlapped and all of them succeeded, then
\* once none is in flight the current quote, the character and the animation
\* trigger are the ones of the call that resolved last, whichever was started
\* first; and a call that settles leaves the other calls in flight.
C8_LastResolvedWins ==
  /\ [] ( (calls = <<>> /\ Len(done) >= 2 /\ \A n \in 1..Len(done) : done[n].ok) =>
            /\ quote = done[Len(done)].q
            /\ character = done[Len(done)].c
            /\ sceneKey = done[Len(done)].k + 1
            /\ done[Len(done)].k = done[Len(done) - 1].k + 1 )
  /\ [][ Resolved =>
           \E i \in 1..Len(calls) :
             /\ calls[i].id = done'[Len(done')].id
             /\ calls' = RemoveAt(calls, i) ]_vars

\* two overlapping calls succeeded with different quotes and the call that
\* was started first resolved last
C8_Witness ==
  /\ calls = <<>>
  /\ Len(done) = 2
  /\ done[1].ok /\ done[2].ok
  /\ done[1].id = 2 /\ done[2].id = 1
  /\ done[1].q # done[2].q
  /\ quote = done[2].q

-----------------------------------------------------------------------------
(* C9 *)

-----------------------------------------------------------------------------
(* C10 *)

\* C10: if every request eventually succeeds or fails, a page that is loading
\* eventually is not loading; and loading is true whenever a call is in flight.
C10_LoadingClears ==
  /\ loading ~> ~loading
  /\ [] (calls # <<>> => loading)

\* the second fetch of a page has settled and cleared the loading flag
C10_Witness ==
  /\ started = 2
  /\ calls = <<>>
  /\ Len(done) = 1
  /\ ~loading

====
